---- MODULE Spec2Model ----
(***************************************************************************)
(* A model of src/main.py: the Codenames spymaster assistant.              *)
(*                                                                         *)
(* Text is modelled as sequences of character codes (ASCII), so that       *)
(* lower(), substring tests, split(':') and the lexical order of sorted()  *)
(* are computed as Python computes them.  Python dicts are sequences of    *)
(* [k, v] entries in insertion order.  Floats are exact fixed-point        *)
(* numbers: a frequency is held in tenths, an aggregated score in          *)
(* hundredths (the weights 1.0, 1.2, 1.5 and 1.2*1.5 are 100, 120, 150 and *)
(* 180 hundredths); binary rounding is not modelled.                       *)
(***************************************************************************)
EXTENDS Integers, Sequences, FiniteSets, TLC

VARIABLES
    \* CodenamesGUI
    cells,          \* bg colour of each of the 25 buttons, row*5+col -> colour
    current_team,   \* self.current_team
    team_selector,  \* value of the team combobox
    spymaster_team, \* self.spymaster_team
    game_words,     \* self.game_words
    listbox,        \* rows of the clue listbox
    msg,            \* message box shown by the last handler ("none" if none)
    sysBg,          \* the toolkit's default button background on this platform
    \* the two external services
    svc,            \* relation -> the responses the relation service may give
    wikiSvc,        \* the responses the encyclopedia may give
    \* one run of generate_clues
    pc,             \* position inside generate_clues ("idle" between handlers)
    requests,       \* number of generate_clues runs that reached the helper
    helper,         \* identity of the CodenamesHelper of the current run
    cache,          \* the lru_cache of _query_datamuse, least recent first
    ncalls,         \* number of calls made to the relation service
    asked,          \* (relation, word) pairs queried so far in this process
    target_words,
    avoid_words,
    ti,             \* index of the target word being processed
    sources,        \* results of the relation queries of the current word
    raws,           \* what the service answered to each of them
    wiki,           \* what the encyclopedia answered for the current word
    combined,       \* return value of _combine_data_sources
    connection_map,
    filtered,       \* return value of find_common_associations
    hints           \* return value of get_sorted_hints

vars == <<cells, current_team, team_selector, spymaster_team, game_words,
          listbox, msg, sysBg, svc, wikiSvc, pc, requests, helper, cache,
          ncalls, asked, target_words, avoid_words, ti, sources, raws, wiki,
          combined, connection_map, filtered, hints>>

guiVars == <<cells, current_team, team_selector, spymaster_team, game_words,
             listbox, msg, sysBg>>
envVars == <<svc, wikiSvc>>

----------------------------------------------------------------------------
(* Bounds of the model *)

\* longest target-word list the core specification starts from
MaxTargets == 3
\* number of generate_clues runs explored in the GUI specification
MaxRequests == 2
\* number of board cells (the first ones, row-major) the user clicks on
ClickCells == 2

----------------------------------------------------------------------------
(* Program constants *)

min_word_frequency == 20      \* 2.0, in tenths
min_connection_count == 2
maxsize == 100                \* lru_cache(maxsize=100)
GridSide == 5

----------------------------------------------------------------------------
(* Python strings and dicts *)

\* str.lower() on one character
LowerChar(c) == IF c >= 65 /\ c <= 90 THEN c + 32 ELSE c

\* str.lower()
Lower(s) == [i \in 1..Len(s) |-> LowerChar(s[i])]

\* a in b, for strings
IsSubstring(a, b) ==
    \E i \in 0..(Len(b) - Len(a)) : SubSeq(b, i + 1, i + Len(a)) = a

\* a < b, for strings (lexicographic on code points)
StrLess(a, b) ==
    \E i \in 1..(Len(a) + 1) :
        /\ i <= Len(b)
        /\ \A j \in 1..(i - 1) : a[j] = b[j]
        /\ (i = Len(a) + 1 \/ a[i] < b[i])

\* str.strip() (spaces, tabs and line breaks)
RECURSIVE LStrip(_)
LStrip(s) == IF s # <<>> /\ Head(s) \in {9, 10, 13, 32} THEN LStrip(Tail(s)) ELSE s
RECURSIVE RStrip(_)
RStrip(s) == IF s # <<>> /\ s[Len(s)] \in {9, 10, 13, 32}
             THEN RStrip(SubSeq(s, 1, Len(s) - 1)) ELSE s
Strip(s) == RStrip(LStrip(s))

\* s.split(':')[-1]
RECURSIVE SplitLast(_)
SplitLast(s) ==
    IF \E i \in 1..Len(s) : s[i] = 58
    THEN SplitLast(Tail(s))
    ELSE s

\* float(s): digits with an optional decimal point.  (Signs, exponents,
\* inf/nan and surrounding blanks, which float() also accepts, are not texts
\* the modelled service sends.)  Anything else raises ValueError.
IsDigit(c) == c >= 48 /\ c <= 57
IsFloatText(s) ==
    /\ \A i \in 1..Len(s) : IsDigit(s[i]) \/ s[i] = 46
    /\ \E i \in 1..Len(s) : IsDigit(s[i])
    /\ Cardinality({i \in 1..Len(s) : s[i] = 46}) <= 1

RECURSIVE DigitsValue(_)
DigitsValue(s) == IF s = <<>> THEN 0
                  ELSE 10 * DigitsValue(SubSeq(s, 1, Len(s) - 1)) + (s[Len(s)] - 48)

\* the value of float(s) in tenths (digits after the first decimal are cut)
FloatTenths(s) ==
    LET dots == {i \in 1..Len(s) : s[i] = 46}
        dot  == IF dots = {} THEN Len(s) + 1 ELSE CHOOSE i \in dots : TRUE
        int  == DigitsValue(SubSeq(s, 1, dot - 1))
        frac == IF dot + 1 <= Len(s) THEN s[dot + 1] - 48 ELSE 0
    IN  10 * int + frac

DictHas(d, k) == \E i \in 1..Len(d) : d[i].k = k
DictGet(d, k) == d[CHOOSE i \in 1..Len(d) : d[i].k = k].v
\* d[k] = v
DictPut(d, k, v) ==
    IF DictHas(d, k)
    THEN [i \in 1..Len(d) |-> IF d[i].k = k THEN [k |-> k, v |-> v] ELSE d[i]]
    ELSE Append(d, [k |-> k, v |-> v])
\* d[k] += x on a defaultdict(float)
DictAdd(d, k, x) == DictPut(d, k, (IF DictHas(d, k) THEN DictGet(d, k) ELSE 0) + x)
Keys(d) == {d[i].k : i \in 1..Len(d)}

----------------------------------------------------------------------------
(* Texts *)

T_adj == <<97, 100, 106>>          \* "adj"
T_n == <<110>>                     \* "n"
T_v == <<118>>                     \* "v"
F_12 == <<102, 58, 49, 50>>        \* "f:12"
F_3_5 == <<102, 58, 51, 46, 53>>   \* "f:3.5"
F_2_0 == <<102, 58, 50, 46, 48>>   \* "f:2.0"
F_0_5 == <<102, 58, 48, 46, 53>>   \* "f:0.5"
F_abc == <<102, 58, 97, 98, 99>>   \* "f:abc"

W_fish == <<102, 105, 115, 104>>                    \* "fish"
W_net == <<110, 101, 116>>                          \* "net"
W_boat == <<98, 111, 97, 116>>                      \* "boat"
W_catch == <<99, 97, 116, 99, 104>>                 \* "catch"
W_water == <<119, 97, 116, 101, 114>>               \* "water"
W_ocean == <<111, 99, 101, 97, 110>>                \* "ocean"
W_Fisher == <<70, 105, 115, 104, 101, 114>>         \* "Fisher"
W_boats == <<98, 111, 97, 116, 115>>                \* "boats"
W_deep_sea == <<100, 101, 101, 112, 32, 115, 101, 97>>  \* "deep sea"
W_x_ray == <<120, 45, 114, 97, 121>>                \* "x-ray"
W_with == <<119, 105, 116, 104>>                    \* "with"

\* string.punctuation
punctuation == (33..47) \cup (58..64) \cup (91..96) \cup (123..126)

\* self.common_words
common_words ==
    { <<105>>, <<97>>, <<97, 110>>, <<116, 104, 101>>, <<97, 110, 100>>,
      <<98, 117, 116>>, <<111, 114>>, <<116, 111>>, <<111, 102>>, <<105, 110>>,
      <<111, 110>>, <<97, 116>>, <<102, 111, 114>>, <<119, 105, 116, 104>>,
      <<98, 121>>, <<102, 114, 111, 109>>, <<117, 112>>, <<111, 117, 116>>,
      <<105, 102>>, <<97, 115>> }

\* self.team_colors, in insertion order
Teams == <<"Red", "Blue", "Neutral", "Assassin">>
TeamColor(t) == CASE t = "Red" -> "#ff6666"
                  [] t = "Blue" -> "#6666ff"
                  [] t = "Neutral" -> "#ffff99"
                  [] t = "Assassin" -> "#444444"

\* the four relations _combine_data_sources queries, in order
Relations == <<"rel_jja", "rel_jjb", "rel_trg", "lc">>

----------------------------------------------------------------------------
(* CodenamesHelper: the pure parts *)

\* the items of a response that pass the comprehension's condition
\* 'tags' in item and len(item['tags']) >= 2
KeptItems(items) ==
    SelectSeq(items, LAMBDA item : item.has_tags /\ Len(item.tags) >= 2)

\* the value the comprehension builds for one kept item
ItemData(item) ==
    [score |-> item.score,
     freq  |-> FloatTenths(SplitLast(item.tags[1])),
     pos   |-> SplitLast(item.tags[Len(item.tags)])]

RECURSIVE ItemsToDict(_, _)
ItemsToDict(d, items) ==
    IF items = <<>> THEN d
    ELSE ItemsToDict(DictPut(d, Head(items).word, ItemData(Head(items))), Tail(items))

\* _query_datamuse past the cache: raw is what self.datamuse.words() did.
\* An exception of the call, or of float() on any kept item, is caught by
\* the one except clause and the result is {}.
QueryDatamuse(raw) ==
    IF raw.raises THEN <<>>
    ELSE LET kept == KeptItems(raw.items)
         IN  IF \E i \in 1..Len(kept) : ~IsFloatText(SplitLast(kept[i].tags[1]))
             THEN <<>>
             ELSE ItemsToDict(<<>>, kept)

\* _is_valid_term
IsValidTerm(term, words) ==
    LET term_lower == Lower(term)
    IN  /\ Len(term) > 3
        /\ term_lower \notin common_words
        /\ ~ \E i \in 1..Len(term) : term[i] \in punctuation
        /\ ~ \E j \in 1..Len(words) : IsSubstring(Lower(words[j]), term_lower)
        /\ ~ \E j \in 1..Len(words) : IsSubstring(term_lower, Lower(words[j]))

\* _normalize_scores, on a dict term -> score; the result is in hundredths
SeqMax(d) == CHOOSE x \in {d[i].v : i \in 1..Len(d)} : \A j \in 1..Len(d) : d[j].v <= x
SeqMin(d) == CHOOSE x \in {d[i].v : i \in 1..Len(d)} : \A j \in 1..Len(d) : d[j].v >= x
NormalizeScores(scores) ==
    IF scores = <<>> THEN <<>>
    ELSE LET max_score == SeqMax(scores)
             min_score == SeqMin(scores)
         IN  [i \in 1..Len(scores) |->
                [k |-> scores[i].k,
                 v |-> IF max_score - min_score # 0
                       THEN (10000 * (scores[i].v - min_score)) \div (max_score - min_score)
                       ELSE 5000]]

\* the three continue-conditions of the loop over a source
Qualifies(term, data, word) ==
    /\ IsValidTerm(term, <<word>>)
    /\ data.freq >= min_word_frequency
    /\ data.pos \in {T_adj, T_n}

\* weight, in hundredths
Weight(term, data, wiki_terms) ==
    ((IF data.pos = T_adj THEN 120 ELSE 100)
       * (IF \E i \in 1..Len(wiki_terms) : wiki_terms[i] = term THEN 150 ELSE 100))
    \div 100

\* what the loop over one source adds, term by term: data['score'] * weight
BatchAdds(source, word, wiki_terms) ==
    LET q == SelectSeq(source, LAMBDA e : Qualifies(e.k, e.v, word))
    IN  [i \in 1..Len(q) |->
            [k |-> q[i].k, v |-> q[i].v.score * Weight(q[i].k, q[i].v, wiki_terms)]]

RECURSIVE AddAll(_, _)
AddAll(d, adds) ==
    IF adds = <<>> THEN d
    ELSE AddAll(DictAdd(d, Head(adds).k, Head(adds).v), Tail(adds))

RECURSIVE AddSources(_, _, _, _)
AddSources(d, srcs, word, wiki_terms) ==
    IF srcs = <<>> THEN d
    ELSE AddSources(AddAll(d, BatchAdds(Head(srcs), word, wiki_terms)),
                    Tail(srcs), word, wiki_terms)

\* the flat 80 for each valid link title
WikiAdds(word, wiki_terms) ==
    LET q == SelectSeq(wiki_terms, LAMBDA t : IsValidTerm(t, <<word>>))
    IN  [i \in 1..Len(q) |-> [k |-> q[i], v |-> 8000]]

\* a faulty variant of _combine_data_sources: one empty source makes it drop
\* the relation data of the word altogether
CombineAbortOnEmptySource(word, srcs, wiki_terms) ==
    IF \E i \in 1..Len(srcs) : srcs[i] = <<>>
    THEN AddAll(<<>>, WikiAdds(word, wiki_terms))
    ELSE AddAll(AddSources(<<>>, srcs, word, wiki_terms), WikiAdds(word, wiki_terms))
\* _combine_data_sources, given the four sources and the link titles
CombineDataSources(word, srcs, wiki_terms) ==
    AddAll(AddSources(<<>>, srcs, word, wiki_terms), WikiAdds(word, wiki_terms))

\* get_wikipedia_links, when the page lookup does not raise
WikipediaLinks(w) == IF w.exists THEN w.links ELSE <<>>

LowerSet(words) == {Lower(words[i]) : i \in 1..Len(words)}

\* the body of the loop over word_associations.items() (lines 258-266)
RECURSIVE RecordAssociations(_, _, _, _, _)
RecordAssociations(cm, assoc, target_word, targets, avoids) ==
    IF assoc = <<>> THEN cm
    ELSE LET term == Head(assoc).k
             score == Head(assoc).v
             old == IF DictHas(cm, term) THEN DictGet(cm, term)
                    ELSE [words |-> {}, scores |-> <<>>, total_score |-> 0]
             new == [words |-> old.words \cup {target_word},
                     scores |-> DictPut(old.scores, target_word, score),
                     total_score |-> old.total_score + score]
         IN  IF Lower(term) \in LowerSet(targets) \/ Lower(term) \in LowerSet(avoids)
             THEN RecordAssociations(cm, Tail(assoc), target_word, targets, avoids)
             ELSE RecordAssociations(DictPut(cm, term, new), Tail(assoc),
                                     target_word, targets, avoids)

\* the filter that ends find_common_associations (lines 268-284)
FilterConnections(cm, targets) ==
    LET q == SelectSeq(cm, LAMBDA e :
                 /\ Cardinality(e.v.words) >= min_connection_count
                 /\ IsValidTerm(e.k, targets))
    IN  [i \in 1..Len(q) |->
            [k |-> q[i].k,
             v |-> [count |-> Cardinality(q[i].v.words),
                    score |-> q[i].v.total_score + Cardinality(q[i].v.words) * 5000,
                    words |-> q[i].v.words,
                    breakdown |-> q[i].v.scores]]]

\* sort_key(a) < sort_key(b): tuples (-count, -score, term)
KeyLess(a, b) ==
    \/ a.v.count > b.v.count
    \/ a.v.count = b.v.count /\ a.v.score > b.v.score
    \/ a.v.count = b.v.count /\ a.v.score = b.v.score /\ StrLess(a.k, b.k)

\* sorted(): stable, an item goes behind every item whose key is not greater
RECURSIVE InsertSorted(_, _)
InsertSorted(s, x) ==
    IF s = <<>> THEN <<x>>
    ELSE IF KeyLess(x, Head(s)) THEN <<x>> \o s
    ELSE <<Head(s)>> \o InsertSorted(Tail(s), x)

RECURSIVE Sorted(_, _)
Sorted(acc, items) ==
    IF items = <<>> THEN acc ELSE Sorted(InsertSorted(acc, Head(items)), Tail(items))

HintOf(e) == [word |-> e.k, count |-> e.v.count, score |-> e.v.score,
              connected_words |-> e.v.words]

\* a faulty variant of get_sorted_hints: the key is (-count, -score) only, so
\* equal keys stay in the mapping's insertion order
SortedHintsNoTieBreak(associations) ==
    LET RECURSIVE Ins(_, _)
        Ins(s, x) ==
            IF s = <<>> THEN <<x>>
            ELSE IF \/ x.v.count > Head(s).v.count
                    \/ x.v.count = Head(s).v.count /\ x.v.score > Head(s).v.score
                 THEN <<x>> \o s
                 ELSE <<Head(s)>> \o Ins(Tail(s), x)
        RECURSIVE Srt(_, _)
        Srt(acc, items) ==
            IF items = <<>> THEN acc ELSE Srt(Ins(acc, Head(items)), Tail(items))
        s == Srt(<<>>, associations)
    IN  [i \in 1..Len(s) |-> HintOf(s[i])]
\* get_sorted_hints
GetSortedHints(associations) ==
    LET s == Sorted(<<>>, associations)
    IN  [i \in 1..Len(s) |-> HintOf(s[i])]

----------------------------------------------------------------------------
(* The two services: what they may answer *)

Item(w, sc, tags) == [word |-> w, score |-> sc, has_tags |-> TRUE, tags |-> tags]
Untagged(w, sc) == [word |-> w, score |-> sc, has_tags |-> FALSE, tags |-> <<>>]
Response(items) == [raises |-> FALSE, items |-> items]
Failure == [raises |-> TRUE, items |-> <<>>]

\* two nouns with equal scores, the lexically larger one first
RespA == Response(<< Item(W_water, 300, <<F_12, T_n>>),
                     Item(W_catch, 300, <<F_3_5, T_n>>) >>)
\* a term containing a target word, a term containing an avoid word, an adjective
RespB == Response(<< Item(W_Fisher, 500, <<F_12, T_n>>),
                     Item(W_boats, 400, <<F_12, T_n>>),
                     Item(W_catch, 900, <<F_2_0, T_adj>>) >>)
\* a frequency tag that is not a number, beside a well-formed entry
RespBadFreq == Response(<< Item(W_ocean, 100, <<F_abc, T_n>>),
                           Item(W_catch, 200, <<F_12, T_n>>) >>)
\* a two-word term, a stop word, punctuation
RespT == Response(<< Item(W_deep_sea, 700, <<F_3_5, T_n>>),
                     Item(W_with, 100, <<F_12, T_n>>),
                     Item(W_x_ray, 100, <<F_12, T_n>>) >>)
\* a rare term, a verb, entries without or with too few tags, a large raw score
RespL == Response(<< Item(W_catch, 200, <<F_0_5, T_n>>),
                     Item(W_water, 100, <<F_12, T_v>>),
                     Untagged(W_boats, 700),
                     Item(W_boats, 700, <<F_12>>),
                     Item(W_ocean, 5000, <<F_12, T_n>>) >>)

\* what each relation may answer in the core specification
CoreService ==
    [r \in {"rel_jja", "rel_jjb", "rel_trg", "lc"} |->
        CASE r = "rel_jja" -> {RespA, Failure}
          [] r = "rel_jjb" -> {RespB, RespBadFreq}
          [] r = "rel_trg" -> {RespT}
          [] r = "lc" -> {RespL, Failure}]

\* in the GUI specification every relation has one answer
GuiService ==
    [r \in {"rel_jja", "rel_jjb", "rel_trg", "lc"} |->
        CASE r = "rel_jja" -> {RespA}
          [] r = "rel_jjb" -> {RespB}
          [] r = "rel_trg" -> {Failure}
          [] r = "lc" -> {RespL}]

WikiFailure == [raises |-> TRUE, exists |-> FALSE, links |-> <<>>]
WikiNoPage == [raises |-> FALSE, exists |-> FALSE, links |-> <<>>]
WikiPage == [raises |-> FALSE, exists |-> TRUE, links |-> <<W_catch, W_deep_sea>>]

CoreWiki == {WikiFailure, WikiNoPage, WikiPage}
GuiWiki == {WikiFailure, WikiPage}

----------------------------------------------------------------------------
(* functools.lru_cache around _query_datamuse *)

CacheHas(c, key) == \E i \in 1..Len(c) : c[i].k = key
CacheGet(c, key) == c[CHOOSE i \in 1..Len(c) : c[i].k = key].v
\* a hit makes the entry the most recent one
CacheTouch(c, key) ==
    SelectSeq(c, LAMBDA e : e.k # key) \o SelectSeq(c, LAMBDA e : e.k = key)
\* a miss stores the result, evicting the least recent entry of a full cache
CacheStore(c, key, val) ==
    Append(IF Len(c) >= maxsize THEN Tail(c) ELSE c, [k |-> key, v |-> val])

----------------------------------------------------------------------------
(* CodenamesGUI *)

Cells == 0..(GridSide * GridSide - 1)

TeamIndex(t) == (CHOOSE i \in 1..Len(Teams) : Teams[i] = t) - 1
IsTeamColor(c) == \E i \in 1..Len(Teams) : TeamColor(Teams[i]) = c
ColorIndex(c) == (CHOOSE i \in 1..Len(Teams) : TeamColor(Teams[i]) = c) - 1

\* the loop of generate_clues over the 25 cells (lines 105-116)
RECURSIVE PartitionFrom(_, _, _, _, _)
PartitionFrom(i, words, colors, team, acc) ==
    IF i >= GridSide * GridSide THEN acc
    ELSE PartitionFrom(i + 1, words, colors, team,
            IF colors[i] = TeamColor(team)
            THEN [acc EXCEPT !.target = Append(@, words[i + 1])]
            ELSE IF colors[i] # TeamColor("Neutral")
                 THEN [acc EXCEPT !.avoid = Append(@, words[i + 1])]
                 ELSE acc)

\* a faulty variant of the loop: the avoid list takes the opposing team's and
\* the Neutral cells
PartitionNeutralAvoided(words, colors, team) ==
    LET RECURSIVE P(_, _)
        P(i, acc) ==
            IF i >= GridSide * GridSide THEN acc
            ELSE P(i + 1,
                   IF colors[i] = TeamColor(team)
                   THEN [acc EXCEPT !.target = Append(@, words[i + 1])]
                   ELSE IF colors[i] \in {TeamColor("Neutral"),
                                          TeamColor(IF team = "Red" THEN "Blue" ELSE "Red")}
                        THEN [acc EXCEPT !.avoid = Append(@, words[i + 1])]
                        ELSE acc)
    IN  P(0, [target |-> <<>>, avoid |-> <<>>])
PartitionBoard(words, colors, team) ==
    PartitionFrom(0, words, colors, team, [target |-> <<>>, avoid |-> <<>>])

runVars == <<ti, sources, raws, wiki, combined, connection_map, filtered, hints>>

\* process_words, from the split text on: words is text.split(',')
ProcessWords(words) ==
    /\ pc = "idle"
    /\ game_words = <<>>
    /\ IF Len(words) # GridSide * GridSide
       THEN /\ msg' = "error"
            /\ UNCHANGED game_words
       ELSE /\ game_words' = [i \in 1..Len(words) |-> Strip(words[i])]
            /\ msg' = "none"
    /\ UNCHANGED <<cells, current_team, team_selector, spymaster_team, listbox, sysBg>>
    /\ UNCHANGED <<envVars, pc, requests, helper, cache, ncalls, asked,
                   target_words, avoid_words, runVars>>

\* set_cell_team: list.index raises ValueError for a colour that is no team colour
SetCellTeam(row, col) ==
    LET i == row * GridSide + col
        current_color == cells[i]
    IN  /\ pc = "idle"
        /\ IF current_color # "SystemButtonFace" /\ ~IsTeamColor(current_color)
           THEN UNCHANGED <<cells, current_team>>
           ELSE LET current_index == IF current_color = "SystemButtonFace"
                                     THEN TeamIndex(current_team)
                                     ELSE ColorIndex(current_color)
                    new_index == (current_index + 1) % Len(Teams)
                    new_team == Teams[new_index + 1]
                IN  /\ cells' = [cells EXCEPT ![i] = TeamColor(new_team)]
                    /\ current_team' = new_team
        /\ msg' = "none"
        /\ UNCHANGED <<team_selector, spymaster_team, game_words, listbox, sysBg>>
        /\ UNCHANGED <<envVars, pc, requests, helper, cache, ncalls, asked,
                       target_words, avoid_words, runVars>>

\* the user picks a team in the combobox
SelectTeam(t) ==
    /\ pc = "idle"
    /\ team_selector # t
    /\ team_selector' = t
    /\ msg' = "none"
    /\ UNCHANGED <<cells, current_team, spymaster_team, game_words, listbox, sysBg>>
    /\ UNCHANGED <<envVars, pc, requests, helper, cache, ncalls, asked,
                   target_words, avoid_words, runVars>>

NoRun == [ti |-> 1, sources |-> <<>>, raws |-> <<>>, wiki |-> WikiNoPage,
          combined |-> <<>>, connection_map |-> <<>>, filtered |-> <<>>,
          hints |-> <<>>]
\* the locals of a run of find_common_associations and get_sorted_hints
RunIs(r) ==
    /\ ti' = r.ti
    /\ sources' = r.sources
    /\ raws' = r.raws
    /\ wiki' = r.wiki
    /\ combined' = r.combined
    /\ connection_map' = r.connection_map
    /\ filtered' = r.filtered
    /\ hints' = r.hints

\* generate_clues up to the end of its loop over the cells (lines 103-116).
\* Indexing an empty game_words raises IndexError, which the handler reports.
GenerateClues ==
    /\ pc = "idle"
    /\ requests < MaxRequests
    /\ spymaster_team' = team_selector
    /\ IF Len(game_words) < GridSide * GridSide
       THEN /\ msg' = "error"
            /\ UNCHANGED <<pc, target_words, avoid_words>>
       ELSE LET p == PartitionBoard(game_words, cells, team_selector)
            IN  /\ target_words' = p.target
                /\ avoid_words' = p.avoid
                /\ msg' = "none"
                /\ pc' = "targets"
    /\ UNCHANGED <<cells, current_team, team_selector, game_words, listbox, sysBg>>
    /\ UNCHANGED <<envVars, requests, helper, cache, ncalls, asked, runVars>>

\* if not target_words: warning, return (lines 118-120)
NoTargets ==
    /\ pc = "targets"
    /\ target_words = <<>>
    /\ msg' = "warning"
    /\ target_words' = <<>>
    /\ avoid_words' = <<>>
    /\ pc' = "idle"
    /\ UNCHANGED <<cells, current_team, team_selector, spymaster_team, game_words,
                   listbox, sysBg>>
    /\ UNCHANGED <<envVars, requests, helper, cache, ncalls, asked, runVars>>

\* helper = CodenamesHelper() (line 122): every run has a helper of its own
NewHelper ==
    /\ pc = "targets"
    /\ target_words # <<>>
    /\ requests' = requests + 1
    /\ helper' = requests + 1
    /\ RunIs(NoRun)
    /\ pc' = "query"
    /\ UNCHANGED <<guiVars, envVars, cache, ncalls, asked, target_words, avoid_words>>

----------------------------------------------------------------------------
(* find_common_associations and get_sorted_hints, call by call *)

CurWord == target_words[ti]
CurRel == Relations[Len(sources) + 1]
CurKey == <<helper, CurRel, CurWord>>

AfterQuery(srcs) == IF Len(srcs) = Len(Relations) THEN "wiki" ELSE "query"

\* _query_datamuse answered by the lru_cache
QueryCached ==
    /\ pc = "query"
    /\ CacheHas(cache, CurKey)
    /\ sources' = Append(sources, CacheGet(cache, CurKey))
    /\ raws' = Append(raws, [raises |-> FALSE, cached |-> TRUE, items |-> <<>>])
    /\ cache' = CacheTouch(cache, CurKey)
    /\ asked' = asked \cup {<<CurRel, CurWord>>}
    /\ pc' = AfterQuery(sources')
    /\ UNCHANGED <<guiVars, envVars, requests, helper, ncalls, target_words,
                   avoid_words, ti, wiki, combined, connection_map, filtered, hints>>

\* _query_datamuse calling the relation service
QueryService ==
    /\ pc = "query"
    /\ ~CacheHas(cache, CurKey)
    /\ \E raw \in svc[CurRel] :
        LET result == QueryDatamuse(raw)
        IN  /\ sources' = Append(sources, result)
            /\ raws' = Append(raws, [raises |-> raw.raises, cached |-> FALSE,
                                     items |-> raw.items])
            /\ cache' = CacheStore(cache, CurKey, result)
    /\ ncalls' = ncalls + 1
    /\ asked' = asked \cup {<<CurRel, CurWord>>}
    /\ pc' = AfterQuery(sources')
    /\ UNCHANGED <<guiVars, envVars, requests, helper, target_words,
                   avoid_words, ti, wiki, combined, connection_map, filtered, hints>>

\* get_wikipedia_links raises: nothing catches it before generate_clues does
WikiRaises ==
    /\ pc = "wiki"
    /\ \E w \in wikiSvc : w.raises /\ RunIs([NoRun EXCEPT !.wiki = w])
    /\ msg' = "error"
    /\ target_words' = <<>>
    /\ avoid_words' = <<>>
    /\ pc' = "idle"
    /\ UNCHANGED <<cells, current_team, team_selector, spymaster_team, game_words,
                   listbox, sysBg>>
    /\ UNCHANGED <<envVars, requests, helper, cache, ncalls, asked>>

\* get_wikipedia_links returns and _combine_data_sources runs to its return
WikiReturns ==
    /\ pc = "wiki"
    /\ \E w \in wikiSvc :
        /\ ~w.raises
        /\ wiki' = w
        /\ combined' = CombineDataSources(CurWord, sources, WikipediaLinks(w))
    /\ pc' = "record"
    /\ UNCHANGED <<guiVars, envVars, requests, helper, cache, ncalls, asked,
                   target_words, avoid_words, ti, sources, raws, connection_map,
                   filtered, hints>>

\* the loop over word_associations, then the next target word
RecordWord ==
    /\ pc = "record"
    /\ connection_map' = RecordAssociations(connection_map, combined, CurWord,
                                            target_words, avoid_words)
    /\ IF ti < Len(target_words)
       THEN /\ ti' = ti + 1
            /\ sources' = <<>>
            /\ raws' = <<>>
            /\ pc' = "query"
       ELSE /\ pc' = "filter"
            /\ UNCHANGED <<ti, sources, raws>>
    /\ UNCHANGED <<guiVars, envVars, requests, helper, cache, ncalls, asked,
                   target_words, avoid_words, wiki, combined, filtered, hints>>

FilterStep ==
    /\ pc = "filter"
    /\ filtered' = FilterConnections(connection_map, target_words)
    /\ pc' = "sort"
    /\ UNCHANGED <<guiVars, envVars, requests, helper, cache, ncalls, asked,
                   target_words, avoid_words, ti, sources, raws, wiki, combined,
                   connection_map, hints>>

SortStep ==
    /\ pc = "sort"
    /\ hints' = GetSortedHints(filtered)
    /\ pc' = "show"
    /\ UNCHANGED <<guiVars, envVars, requests, helper, cache, ncalls, asked,
                   target_words, avoid_words, ti, sources, raws, wiki, combined,
                   connection_map, filtered>>

\* the rest of generate_clues (lines 126-141)
ShowClues ==
    /\ pc = "show"
    /\ listbox' = [i \in 1..(IF Len(hints) < 15 THEN Len(hints) ELSE 15) |->
                      [count |-> hints[i].count, word |-> hints[i].word,
                       score |-> hints[i].score]]
    /\ msg' = IF hints = <<>> THEN "info" ELSE "none"
    /\ RunIs(NoRun)
    /\ target_words' = <<>>
    /\ avoid_words' = <<>>
    /\ pc' = "idle"
    /\ UNCHANGED <<cells, current_team, team_selector, spymaster_team, game_words, sysBg>>
    /\ UNCHANGED <<envVars, requests, helper, cache, ncalls, asked>>

----------------------------------------------------------------------------
(* Specifications *)

RECURSIVE SeqsUpTo(_, _)
SeqsUpTo(S, n) ==
    IF n = 0 THEN {<<>>}
    ELSE LET shorter == SeqsUpTo(S, n - 1)
         IN  shorter \cup {Append(s, x) : s \in shorter, x \in S}

TargetLists == SeqsUpTo({W_fish, W_net}, MaxTargets) \ {<<>>}
AvoidLists == {<<>>, <<W_boat>>}

\* a filler board word: "w" and a letter
Filler(i) == <<119, 96 + i>>

\* a board that generate_clues maps to the given lists for team Red
BoardWordsFor(targets, avoids) ==
    [i \in 1..(GridSide * GridSide) |->
        IF i <= Len(targets) THEN targets[i]
        ELSE IF i <= Len(targets) + Len(avoids) THEN avoids[i - Len(targets)]
        ELSE Filler(i)]
BoardColorsFor(targets, avoids) ==
    [i \in Cells |->
        IF i < Len(targets) THEN TeamColor("Red")
        ELSE IF i < Len(targets) + Len(avoids) THEN TeamColor("Assassin")
        ELSE TeamColor("Neutral")]

\* the words typed into the popup, split at the commas
TypedBoard ==
    [i \in 1..(GridSide * GridSide) |->
        CASE i = 1 -> <<32>> \o W_fish
          [] i = 2 -> W_fish \o <<32>>
          [] i = 3 -> W_net
          [] OTHER -> <<32>> \o Filler(i)]
TypedTooFew == [i \in 1..(GridSide * GridSide - 1) |-> Filler(i)]

\* The core: generate_clues has built its lists from a marked board and is
\* about to construct the helper.
Init ==
    /\ sysBg = "SystemButtonFace"
    /\ \E t \in TargetLists, a \in AvoidLists :
        /\ target_words = t
        /\ avoid_words = a
        /\ game_words = BoardWordsFor(t, a)
        /\ cells = BoardColorsFor(t, a)
    /\ current_team = "Red"
    /\ team_selector = "Red"
    /\ spymaster_team = "Red"
    /\ listbox = <<>>
    /\ msg = "none"
    /\ svc = CoreService
    /\ wikiSvc = CoreWiki
    /\ pc = "targets"
    /\ requests = 0
    /\ helper = 0
    /\ cache = <<>>
    /\ ncalls = 0
    /\ asked = {}
    /\ ti = 1
    /\ sources = <<>>
    /\ raws = <<>>
    /\ wiki = WikiNoPage
    /\ combined = <<>>
    /\ connection_map = <<>>
    /\ filtered = <<>>
    /\ hints = <<>>

Next ==
    \/ NewHelper
    \/ QueryCached
    \/ QueryService
    \/ WikiRaises
    \/ WikiReturns
    \/ RecordWord
    \/ FilterStep
    \/ SortStep
    \/ ShowClues

Spec == Init /\ [][Next]_vars

\* The application from its construction on.
InitGUI ==
    /\ sysBg \in {"SystemButtonFace", "#d9d9d9"}
    /\ cells = [i \in Cells |-> sysBg]
    /\ current_team = "Red"
    /\ team_selector = "Red"
    /\ spymaster_team = "Red"
    /\ game_words = <<>>
    /\ listbox = <<>>
    /\ msg = "none"
    /\ svc = GuiService
    /\ wikiSvc = GuiWiki
    /\ pc = "idle"
    /\ requests = 0
    /\ helper = 0
    /\ cache = <<>>
    /\ ncalls = 0
    /\ asked = {}
    /\ target_words = <<>>
    /\ avoid_words = <<>>
    /\ ti = 1
    /\ sources = <<>>
    /\ raws = <<>>
    /\ wiki = WikiNoPage
    /\ combined = <<>>
    /\ connection_map = <<>>
    /\ filtered = <<>>
    /\ hints = <<>>

NextGUI ==
    \/ \E words \in {TypedBoard, TypedTooFew} : ProcessWords(words)
    \/ \E row \in 0..(GridSide - 1), col \in 0..(GridSide - 1) :
          row * GridSide + col < ClickCells /\ SetCellTeam(row, col)
    \/ \E t \in {"Red", "Blue"} : SelectTeam(t)
    \/ GenerateClues
    \/ NoTargets
    \/ NewHelper
    \/ QueryCached
    \/ QueryService
    \/ WikiRaises
    \/ WikiReturns
    \/ RecordWord
    \/ FilterStep
    \/ SortStep
    \/ ShowClues

SpecGUI == InitGUI /\ [][NextGUI]_vars

----------------------------------------------------------------------------
(* Properties *)

Range(f) == {f[i] : i \in DOMAIN f}
HasSpace(t) == \E i \in 1..Len(t) : t[i] = 32
Overlaps(term, word) ==
    \/ IsSubstring(Lower(word), Lower(term))
    \/ IsSubstring(Lower(term), Lower(word))

RECURSIVE SumValues(_)
SumValues(d) == IF d = <<>> THEN 0 ELSE Head(d).v + SumValues(Tail(d))

\* C1: no hint of the final result has a term that case-insensitively equals,
\* contains or is contained in a target word or an avoid word.
C1_NoHintOverlapsTargetOrAvoid ==
    pc = "show" =>
        \A i \in 1..Len(hints) :
            \A w \in Range(target_words) \cup Range(avoid_words) :
                ~Overlaps(hints[i].word, w)

\* C2: a failing encyclopedia lookup is treated as an empty link set: the
\* run goes on and no error reaches the caller of find_common_associations.
C2_WikiFailureIsAbsorbed ==
    wiki.raises => (msg # "error" /\ pc # "idle")

\* C3: when exactly one of the four relation queries of a word raises, it
\* yields the empty mapping, and the mapping _combine_data_sources returns
\* holds every qualifying term of the other batches with the score they give
\* it (score times weight per batch, plus the flat 80 of a link title).
ExactlyOneRaised == Cardinality({i \in 1..Len(raws) : raws[i].raises}) = 1
QualifiesIn(i, term) ==
    /\ DictHas(sources[i], term)
    /\ Qualifies(term, DictGet(sources[i], term), CurWord)
RECURSIVE ScoreFrom(_, _)
ScoreFrom(i, term) ==
    IF i > Len(sources) THEN 0
    ELSE (IF QualifiesIn(i, term)
          THEN DictGet(sources[i], term).score
                 * Weight(term, DictGet(sources[i], term), WikipediaLinks(wiki))
          ELSE 0) + ScoreFrom(i + 1, term)
LinkBonus(term) ==
    IF term \in Range(WikipediaLinks(wiki)) /\ IsValidTerm(term, <<CurWord>>)
    THEN 8000 ELSE 0
C3_OneFailedQueryKeepsTheOthers ==
    (pc = "record" /\ ExactlyOneRaised) =>
        /\ \A i \in 1..Len(raws) : raws[i].raises => sources[i] = <<>>
        /\ \A i \in 1..Len(sources) : \A t \in Keys(sources[i]) :
              QualifiesIn(i, t) =>
                  /\ DictHas(combined, t)
                  /\ DictGet(combined, t) = ScoreFrom(1, t) + LinkBonus(t)
\* one query raised and a term of two other batches has been combined
C3_Witness ==
    /\ pc = "record"
    /\ ExactlyOneRaised
    /\ \E i \in 1..Len(sources) : \E t \in Keys(sources[i]) :
          /\ QualifiesIn(i, t)
          /\ \E j \in 1..Len(sources) : j # i /\ QualifiesIn(j, t)
    /\ combined # <<>>

\* C4: every entry find_common_associations returns has count equal to the
\* size of its connected-word set and score equal to the sum of its breakdown
\* plus 50 per connected word.
C4_ScoreIsBreakdownPlusBonus ==
    pc = "sort" =>
        \A i \in 1..Len(filtered) :
            /\ filtered[i].v.count = Cardinality(filtered[i].v.words)
            /\ filtered[i].v.score =
                  SumValues(filtered[i].v.breakdown) + 5000 * filtered[i].v.count

ScoresOf(source) == [i \in 1..Len(source) |-> [k |-> source[i].k, v |-> source[i].v.score]]
C6_BatchAddsNormalizedScore ==
    pc = "record" =>
        \A i \in 1..Len(sources) :
            LET adds == BatchAdds(sources[i], CurWord, WikipediaLinks(wiki))
                norm == NormalizeScores(ScoresOf(sources[i]))
            IN  \A j \in 1..Len(adds) :
                    LET w == Weight(adds[j].k, DictGet(sources[i], adds[j].k),
                                    WikipediaLinks(wiki))
                    IN  /\ adds[j].v * 100 = DictGet(norm, adds[j].k) * w
                        /\ adds[j].v <= 100 * w

\* C7: no term containing a space is a key of the mapping
\* _combine_data_sources returns, nor a hint of the final result.
C7_NoMultiWordTerm ==
    /\ pc = "record" => \A t \in Keys(combined) : ~HasSpace(t)
    /\ pc = "show" => \A i \in 1..Len(hints) : ~HasSpace(hints[i].word)

\* C8: once a (relation, word) pair has been queried, every later query for
\* it is answered without a new call to the relation service.
C8_RepeatedQueryNeverCallsService ==
    [][(pc = "query" /\ <<CurRel, CurWord>> \in asked) => ncalls' = ncalls]_vars

\* C9, as amended: generate_clues puts the word of a cell in the target list
\* exactly when the cell has the selected team's colour, and in the avoid
\* list exactly when the cell has neither that colour nor the Neutral colour.
JustPartitioned == pc = "targets"
Count(list, w) == Cardinality({i \in 1..Len(list) : list[i] = w})
CellsOf(w, colors) == {i \in Cells : game_words[i + 1] = w /\ cells[i] \in colors}
OpposingTeam == IF spymaster_team = "Red" THEN "Blue" ELSE "Red"
AllColors == {TeamColor(Teams[i]) : i \in 1..Len(Teams)} \cup {sysBg}
C9_AvoidIsEverythingButOwnAndNeutral ==
    JustPartitioned =>
        \A w \in Range(game_words) :
            /\ Count(target_words, w)
                 = Cardinality(CellsOf(w, {TeamColor(spymaster_team)}))
            /\ Count(avoid_words, w)
                 = Cardinality(CellsOf(w, AllColors \ {TeamColor(spymaster_team),
                                                       TeamColor("Neutral")}))
\* a run with targets on a board with a Neutral and an unmarked cell
C9_Witness ==
    /\ JustPartitioned
    /\ target_words # <<>>
    /\ \E i \in Cells : cells[i] = TeamColor("Neutral")
    /\ \E i \in Cells : cells[i] = sysBg

\* C9, as written: a word is in the avoid list exactly when its cell has the
\* opposing team's colour or the Neutral colour.
C9_AvoidIsOpposingOrNeutral ==
    JustPartitioned =>
        \A w \in Range(game_words) :
            /\ Count(target_words, w)
                 = Cardinality(CellsOf(w, {TeamColor(spymaster_team)}))
            /\ Count(avoid_words, w)
                 = Cardinality(CellsOf(w, {TeamColor(OpposingTeam),
                                           TeamColor("Neutral")}))

\* C10: an entry with missing or malformed tags is the only one left out:
\* every well-formed entry of the same response is in the mapping
\* _query_datamuse returns, with its score, frequency and part of speech.
WellFormed(item) ==
    /\ item.has_tags
    /\ Len(item.tags) >= 2
    /\ IsFloatText(SplitLast(item.tags[1]))
C10_OnlyMalformedEntriesAreDropped ==
    \A i \in 1..Len(raws) :
        (~raws[i].cached /\ ~raws[i].raises) =>
            \A item \in Range(raws[i].items) :
                WellFormed(item) =>
                    /\ DictHas(sources[i], item.word)
                    /\ DictGet(sources[i], item.word) = ItemData(item)

====
